---- MODULE Spec2Model ----
(***************************************************************************)
(* A model of the mag music library (src/db.rs, src/cli.rs): the SQLite    *)
(* store "music.db" with its six tables, the five mutating operations      *)
(* add_song, add_tag, tag_song, remove_song, remove_tag, and the dynamic   *)
(* query builder query_songs.                                              *)
(*                                                                         *)
(* Every public operation opens its own connection (connect) and runs its  *)
(* SQL statements one after the other in autocommit mode: a statement      *)
(* that fails makes the operation return early (the `?` operator) and the  *)
(* statements before it stay applied.                                      *)
(*                                                                         *)
(* Rows carry the columns the statements of db.rs read or write.  The      *)
(* columns no statement touches (play_events.context_id, started_at,       *)
(* ended_at, skipped; feedback.feedback; the contexts rows) are left out.  *)
(***************************************************************************)
EXTENDS Integers, Sequences, FiniteSets, TLC

VARIABLES
    available,      \* Connection::open("music.db") succeeds
    foreign_keys,   \* the SQLite build enforces FOREIGN KEY clauses
    tables,         \* names of the tables that exist in the store
    songs,          \* rows of songs:       [id, path]
    tags,           \* rows of tags:        [id, name]
    song_tags,      \* rows of song_tags:   [song_id, tag_id, value]
    play_events,    \* rows of play_events: [id, song_id]
    feedback,       \* rows of feedback:    [id, play_event_id, tag_id]
    last,           \* the latest call: operation, arguments, result
    cli,            \* the latest parse_tag_condition: its argument and Result
    procs           \* the calls in progress, one per process: position and locals

vars == <<available, foreign_keys, tables, songs, tags, song_tags,
          play_events, feedback, last, cli, procs>>

rows == <<songs, tags, song_tags, play_events, feedback>>

store == <<tables, songs, tags, song_tags, play_events, feedback>>

-----------------------------------------------------------------------------
(* Bounds and input sets *)

\* largest rowid the model lets INSERT assign
MaxId == 2

\* longest condition list handed to query_songs
MaxConds == 2

Paths == {"a", "b"}

Names == {"x", "y"}

\* tag_song's value argument is a u8: valid values, both ends of the valid
\* range, the first invalid value and the largest u8
Values == {0, 9, 10, 255}

\* CHECK(value BETWEEN 0 AND 9)
MinValue == 0

MaxValue == 9

AllTables == {"songs", "tags", "song_tags", "contexts", "play_events", "feedback"}

\* the operators query_songs accepts, and one it does not
valid_operators == {"=", ">", "<", ">=", "<=", "!="}

-----------------------------------------------------------------------------
(* SQLite primitives *)

Max(S) == CHOOSE m \in S : \A x \in S : x <= m

\* INTEGER PRIMARY KEY without AUTOINCREMENT: a new row gets one more than the
\* largest rowid in the table, so the id of a deleted row can be handed out again
NextRowid(T) == IF T = {} THEN 1 ELSE Max({r.id : r \in T}) + 1

\* connect(): CREATE TABLE IF NOT EXISTS for the six tables, in one batch
CreateTables(T) == T \cup AllTables

\* SELECT id FROM songs WHERE path = ?1
SelectSongId(S, path) == {r.id : r \in {s \in S : s.path = path}}

\* SELECT id FROM tags WHERE name = ?1
SelectTagId(T, name) == {r.id : r \in {t \in T : t.name = name}}

\* (mutant) an INSERT into a songs table whose path is not UNIQUE
InsertSongAlways(S, path) == S \cup {[id |-> NextRowid(S), path |-> path]}

\* INSERT OR IGNORE INTO songs (path): the UNIQUE conflict is skipped silently
InsertOrIgnoreSong(S, path) ==
    IF \E s \in S : s.path = path
    THEN S
    ELSE S \cup {[id |-> NextRowid(S), path |-> path]}

\* (mutant) an INSERT into a tags table whose name is not UNIQUE
InsertTagAlways(T, name) == T \cup {[id |-> NextRowid(T), name |-> name]}

\* INSERT OR IGNORE INTO tags (name)
InsertOrIgnoreTag(T, name) ==
    IF \E t \in T : t.name = name
    THEN T
    ELSE T \cup {[id |-> NextRowid(T), name |-> name]}

\* (mutant) the CHECK written one too wide
CheckValueTooWide(v) == MinValue <= v /\ v <= MaxValue + 1

\* CHECK(value BETWEEN 0 AND 9)
CheckValue(v) == MinValue <= v /\ v <= MaxValue

\* FOREIGN KEY(song_id) REFERENCES songs(id), FOREIGN KEY(tag_id) REFERENCES
\* tags(id): enforced on the child row only when the build turns them on
SongTagParentsOk(S, T, sid, tid) ==
    foreign_keys => (\E s \in S : s.id = sid) /\ (\E t \in T : t.id = tid)

\* (mutant) a plain INSERT into a song_tags table without its PRIMARY KEY
InsertSongTagAgain(ST, sid, tid, v) ==
    ST \cup {[song_id |-> sid, tag_id |-> tid, value |-> v]}

\* INSERT INTO song_tags ... ON CONFLICT(song_id, tag_id) DO UPDATE SET value
UpsertSongTag(ST, sid, tid, v) ==
    {r \in ST : ~(r.song_id = sid /\ r.tag_id = tid)}
        \cup {[song_id |-> sid, tag_id |-> tid, value |-> v]}

\* the value of the row stored under the key (song_id, tag_id): -1 when none
OldValue(ST, sid, tid) ==
    LET hit == {r \in ST : r.song_id = sid /\ r.tag_id = tid}
    IN  IF hit = {} THEN -1 ELSE (CHOOSE r \in hit : TRUE).value

\* DELETE FROM song_tags WHERE song_id = ?1
DeleteSongTagsOfSong(ST, sid) == {r \in ST : r.song_id # sid}

\* (mutant) DELETE FROM song_tags without its WHERE clause
DeleteSongTagsOfAnyTag(ST, tid) == {}

\* DELETE FROM song_tags WHERE tag_id = ?1
DeleteSongTagsOfTag(ST, tid) == {r \in ST : r.tag_id # tid}

\* DELETE FROM play_events WHERE song_id = ?1
DeletePlayEventsOfSong(PE, sid) == {r \in PE : r.song_id # sid}

\* DELETE FROM feedback WHERE play_event_id IN
\*     (SELECT id FROM play_events WHERE song_id = ?1)
\* PE is the play_events table as it is when the statement runs
DeleteFeedbackOfSong(FB, PE, sid) ==
    {f \in FB : f.play_event_id \notin {p.id : p \in {q \in PE : q.song_id = sid}}}

\* DELETE FROM feedback WHERE tag_id = ?1
DeleteFeedbackOfTag(FB, tid) == {f \in FB : f.tag_id # tid}

\* DELETE FROM songs WHERE id = ?1
DeleteSong(S, sid) == {s \in S : s.id # sid}

\* DELETE FROM tags WHERE id = ?1
DeleteTag(T, tid) == {t \in T : t.id # tid}

\* A DELETE of parent rows fails, and deletes nothing, when foreign keys are
\* enforced and a child row still references one of the deleted ids
PlayEventsDeletable(PE, FB, sid) ==
    foreign_keys =>
        ~\E f \in FB : f.play_event_id \in {p.id : p \in {q \in PE : q.song_id = sid}}

SongDeletable(ST, PE, sid) ==
    foreign_keys =>
        ~((\E r \in ST : r.song_id = sid) \/ (\E p \in PE : p.song_id = sid))

TagDeletable(ST, FB, tid) ==
    foreign_keys =>
        ~((\E r \in ST : r.tag_id = tid) \/ (\E f \in FB : f.tag_id = tid))

-----------------------------------------------------------------------------
(* The record of a call *)

\* no statement built: the state of query_songs' locals before its loop
NoStmt == [query |-> <<>>, where_conditions |-> <<>>, params_vec |-> <<>>, err |-> FALSE]

NoCall ==
    [op |-> "none", path |-> "", name |-> "", value |-> 0, conditions |-> <<>>,
     res |-> "Ok", changes |-> 0, old |-> -1, prepared |-> FALSE,
     stmt |-> NoStmt, songs |-> <<>>]

\* a call of one of the five mutating operations and its Result; changes is
\* the number of rows its last INSERT or DELETE changed
Call(op, path, name, value, res, changes) ==
    [op |-> op, path |-> path, name |-> name, value |-> value,
     conditions |-> <<>>, res |-> res, changes |-> changes, old |-> -1,
     prepared |-> FALSE, stmt |-> NoStmt, songs |-> <<>>]

\* a call of tag_song that reached its upsert: old is the value of the row the
\* upsert met under (song_id, tag_id), -1 when it met none
UpsertCall(path, name, value, res, changes, old) ==
    [Call("tag_song", path, name, value, res, changes) EXCEPT !.old = old]

\* a call of query_songs: its Result, the statement it built, whether the
\* statement reached conn.prepare, and the Vec<Song> it returned
QueryCall(conditions, res, prepared, stmt, result) ==
    [op |-> "query_songs", path |-> "", name |-> "", value |-> 0,
     conditions |-> conditions, res |-> res, changes |-> 0, old |-> -1,
     prepared |-> prepared, stmt |-> stmt, songs |-> result]

\* nothing parsed yet
NoParse == [condition |-> <<>>, res |-> "none", tag_name |-> <<>>, value |-> 0,
            operator |-> ""]

\* the processes that run a call statement by statement
Procs == {1, 2}

\* a process between two calls
Idle == [pc |-> "idle", op |-> "none", path |-> "", name |-> "", value |-> 0,
         song_id |-> 0, tag_id |-> 0, res |-> "none", n |-> 0, pending |-> {},
         issued |-> <<>>, gone |-> {}]

NoProcs == [p \in Procs |-> Idle]

-----------------------------------------------------------------------------
(* The mutating operations *)

add_song(path) ==
    /\ (\E s \in songs : s.path = path) \/ NextRowid(songs) <= MaxId
    /\ UNCHANGED <<cli, procs>>
    /\ UNCHANGED <<available, foreign_keys, tags, song_tags, play_events, feedback>>
    /\ IF ~available
       THEN /\ last' = Call("add_song", path, "", 0, "StorageUnavailable", 0)
            /\ UNCHANGED <<tables, songs>>
       ELSE /\ tables' = CreateTables(tables)
            /\ songs' = InsertOrIgnoreSong(songs, path)
            /\ last' = Call("add_song", path, "", 0, "Ok",
                            Cardinality(songs') - Cardinality(songs))

add_tag(name) ==
    /\ (\E t \in tags : t.name = name) \/ NextRowid(tags) <= MaxId
    /\ UNCHANGED <<cli, procs>>
    /\ UNCHANGED <<available, foreign_keys, songs, song_tags, play_events, feedback>>
    /\ IF ~available
       THEN /\ last' = Call("add_tag", "", name, 0, "StorageUnavailable", 0)
            /\ UNCHANGED <<tables, tags>>
       ELSE /\ tables' = CreateTables(tables)
            /\ tags' = InsertOrIgnoreTag(tags, name)
            /\ last' = Call("add_tag", "", name, 0, "Ok",
                            Cardinality(tags') - Cardinality(tags))

\* (mutant) a tag_song that creates the song and the tag it does not find
tag_song_autocreate(song_path, tag_name, value) ==
    /\ available
    /\ NextRowid(songs) <= MaxId + 1 /\ NextRowid(tags) <= MaxId + 1
    /\ UNCHANGED <<cli, procs>>
    /\ UNCHANGED <<available, foreign_keys, play_events, feedback>>
    /\ tables' = CreateTables(tables)
    /\ songs' = InsertOrIgnoreSong(songs, song_path)
    /\ tags' = InsertOrIgnoreTag(tags, tag_name)
    /\ LET song_id == CHOOSE i \in SelectSongId(songs', song_path) : TRUE
           tag_id == CHOOSE i \in SelectTagId(tags', tag_name) : TRUE
       IN  IF CheckValue(value)
           THEN /\ song_tags' = UpsertSongTag(song_tags, song_id, tag_id, value)
                /\ last' = UpsertCall(song_path, tag_name, value, "Ok", 1,
                                      OldValue(song_tags, song_id, tag_id))
           ELSE /\ last' = UpsertCall(song_path, tag_name, value,
                                      "ConstraintViolation", 0,
                                      OldValue(song_tags, song_id, tag_id))
                /\ UNCHANGED song_tags

tag_song(song_path, tag_name, value) ==
    /\ UNCHANGED <<cli, procs>>
    /\ UNCHANGED <<available, foreign_keys, songs, tags, play_events, feedback>>
    /\ IF ~available
       THEN /\ last' = Call("tag_song", song_path, tag_name, value,
                            "StorageUnavailable", 0)
            /\ UNCHANGED <<tables, song_tags>>
       ELSE /\ tables' = CreateTables(tables)
            /\ LET sids == SelectSongId(songs, song_path)
                   tids == SelectTagId(tags, tag_name)
               IN  IF sids = {} \/ tids = {}
                   THEN /\ last' = Call("tag_song", song_path, tag_name, value,
                                        "NotFound", 0)
                        /\ UNCHANGED song_tags
                   ELSE LET song_id == CHOOSE i \in sids : TRUE
                            tag_id == CHOOSE i \in tids : TRUE
                            old == OldValue(song_tags, song_id, tag_id)
                        IN  IF CheckValue(value)
                               /\ SongTagParentsOk(songs, tags, song_id, tag_id)
                            THEN /\ song_tags' =
                                        UpsertSongTag(song_tags, song_id, tag_id, value)
                                 /\ last' = UpsertCall(song_path, tag_name, value,
                                                       "Ok", 1, old)
                            ELSE /\ last' = UpsertCall(song_path, tag_name, value,
                                                       "ConstraintViolation", 0, old)
                                 /\ UNCHANGED song_tags

remove_song(path) ==
    /\ UNCHANGED <<cli, procs>>
    /\ UNCHANGED <<available, foreign_keys, tags>>
    /\ IF ~available
       THEN /\ last' = Call("remove_song", path, "", 0, "StorageUnavailable", 0)
            /\ UNCHANGED <<tables, songs, song_tags, play_events, feedback>>
       ELSE /\ tables' = CreateTables(tables)
            /\ LET sids == SelectSongId(songs, path)
               IN  IF sids = {}
                   THEN /\ last' = Call("remove_song", path, "", 0, "Ok", 0)
                        /\ UNCHANGED <<songs, song_tags, play_events, feedback>>
                   ELSE LET id == CHOOSE i \in sids : TRUE
                            st1 == DeleteSongTagsOfSong(song_tags, id)
                            pe2 == DeletePlayEventsOfSong(play_events, id)
                            fb3 == DeleteFeedbackOfSong(feedback, pe2, id)
                            s4 == DeleteSong(songs, id)
                        IN  /\ song_tags' = st1
                            /\ IF ~PlayEventsDeletable(play_events, feedback, id)
                               THEN /\ last' = Call("remove_song", path, "", 0,
                                                    "ConstraintViolation", 0)
                                    /\ UNCHANGED <<songs, play_events, feedback>>
                               ELSE /\ play_events' = pe2
                                    /\ feedback' = fb3
                                    /\ IF ~SongDeletable(st1, pe2, id)
                                       THEN /\ last' = Call("remove_song", path, "", 0,
                                                            "ConstraintViolation", 0)
                                            /\ UNCHANGED songs
                                       ELSE /\ songs' = s4
                                            /\ last' = Call("remove_song", path, "", 0,
                                                            "Ok", 1)

remove_tag(name) ==
    /\ UNCHANGED <<cli, procs>>
    /\ UNCHANGED <<available, foreign_keys, songs, play_events>>
    /\ IF ~available
       THEN /\ last' = Call("remove_tag", "", name, 0, "StorageUnavailable", 0)
            /\ UNCHANGED <<tables, tags, song_tags, feedback>>
       ELSE /\ tables' = CreateTables(tables)
            /\ LET tids == SelectTagId(tags, name)
               IN  IF tids = {}
                   THEN /\ last' = Call("remove_tag", "", name, 0, "Ok", 0)
                        /\ UNCHANGED <<tags, song_tags, feedback>>
                   ELSE LET id == CHOOSE i \in tids : TRUE
                            st1 == DeleteSongTagsOfTag(song_tags, id)
                            fb2 == DeleteFeedbackOfTag(feedback, id)
                            t3 == DeleteTag(tags, id)
                        IN  /\ song_tags' = st1
                            /\ feedback' = fb2
                            /\ IF ~TagDeletable(st1, fb2, id)
                               THEN /\ last' = Call("remove_tag", "", name, 0,
                                                    "ConstraintViolation", 0)
                                    /\ UNCHANGED tags
                               ELSE /\ tags' = t3
                                    /\ last' = Call("remove_tag", "", name, 0, "Ok", 1)

-----------------------------------------------------------------------------
(* query_songs: the statement it builds *)

\* a condition is the tuple (tag_name, value, operator) of the slice
Condition(tag_name, value, operator) ==
    [tag_name |-> tag_name, value |-> value, operator |-> operator]

\* u8::to_string: the decimal digits of the value, most significant first
RECURSIVE to_string(_)
to_string(v) == IF v < 10 THEN <<v>> ELSE Append(to_string(v \div 10), v % 10)

\* (mutant) the loop with the allow-list test after the pushes of condition i
RECURSIVE LoopPushFirst(_, _)
LoopPushFirst(conditions, k) ==
    IF k = 0
    THEN NoStmt
    ELSE LET st == LoopPushFirst(conditions, k - 1)
             c == conditions[k]
             i == k - 1
         IN  IF st.err
             THEN st
             ELSE [query |-> Append(st.query, i),
                   where_conditions |->
                       Append(st.where_conditions,
                              [alias |-> i, operator |-> c.operator]),
                   params_vec |->
                       st.params_vec \o <<c.tag_name, to_string(c.value)>>,
                   err |-> c.operator \notin valid_operators]

\* (mutant) the loop reusing the join pair of an earlier condition on the same tag
RECURSIVE LoopSharedAlias(_, _)
LoopSharedAlias(conditions, k) ==
    IF k = 0
    THEN NoStmt
    ELSE LET st == LoopSharedAlias(conditions, k - 1)
             c == conditions[k]
             first == CHOOSE j \in 1..k :
                          /\ conditions[j].tag_name = c.tag_name
                          /\ \A h \in 1..(j - 1) : conditions[h].tag_name # c.tag_name
             i == first - 1
         IN  IF st.err
             THEN st
             ELSE IF c.operator \notin valid_operators
             THEN [st EXCEPT !.err = TRUE]
             ELSE [query |-> IF first = k THEN Append(st.query, i) ELSE st.query,
                   where_conditions |->
                       Append(st.where_conditions,
                              [alias |-> i, operator |-> c.operator]),
                   params_vec |->
                       st.params_vec \o <<c.tag_name, to_string(c.value)>>,
                   err |-> FALSE]

\* the locals of query_songs after the first k conditions went through the loop:
\*   query            the alias index i of every join pair pushed onto the text
\*   where_conditions the (alias index, operator) of every WHERE clause pushed
\*   params_vec       tag_name, value.to_string() of every condition pushed
\*   err              the loop returned Err(InvalidParameterName)
\* The allow-list test of condition i comes before its three pushes.
RECURSIVE Loop(_, _)
Loop(conditions, k) ==
    IF k = 0
    THEN NoStmt
    ELSE LET st == Loop(conditions, k - 1)
             c == conditions[k]
             i == k - 1
         IN  IF st.err
             THEN st
             ELSE IF c.operator \notin valid_operators
             THEN [st EXCEPT !.err = TRUE]
             ELSE [query |-> Append(st.query, i),
                   where_conditions |->
                       Append(st.where_conditions,
                              [alias |-> i, operator |-> c.operator]),
                   params_vec |->
                       st.params_vec \o <<c.tag_name, to_string(c.value)>>,
                   err |-> FALSE]

\* format!(" JOIN song_tags st{} ON s.id = st{}.song_id JOIN tags t{} ON
\* st{}.tag_id = t{}.id", i, i, i, i, i) for every join pair, in order
RECURSIVE JoinText(_)
JoinText(query) ==
    IF query = <<>> THEN <<>>
    ELSE LET i == ToString(query[Len(query)])
         IN  JoinText(SubSeq(query, 1, Len(query) - 1))
                 \o <<" JOIN song_tags st", i, " ON s.id = st", i,
                      ".song_id JOIN tags t", i, " ON st", i, ".tag_id = t", i,
                      ".id">>

\* format!("(t{}.name = ? AND st{}.value {} ?)", i, i, operator) of every
\* condition, joined by " AND "
RECURSIVE WhereText(_)
WhereText(where_conditions) ==
    IF where_conditions = <<>> THEN <<>>
    ELSE LET w == where_conditions[Len(where_conditions)]
             i == ToString(w.alias)
             front == SubSeq(where_conditions, 1, Len(where_conditions) - 1)
         IN  WhereText(front)
                 \o (IF front = <<>> THEN <<>> ELSE <<" AND ">>)
                 \o <<"(t", i, ".name = ? AND st", i, ".value ", w.operator, " ?)">>

\* the text handed to conn.prepare, as the pieces it was pushed together from
QueryText(stmt) ==
    <<"SELECT DISTINCT s.id, s.path FROM songs s">>
        \o JoinText(stmt.query)
        \o <<" WHERE ">>
        \o WhereText(stmt.where_conditions)
        \o <<" ORDER BY s.path">>

-----------------------------------------------------------------------------
(* query_songs: what SQLite does with the statement *)

\* memcmp order of two byte strings (the BINARY collation of ORDER BY s.path)
Utf8(path) == IF path = "a" THEN <<97>> ELSE IF path = "b" THEN <<98>> ELSE <<>>

RECURSIVE BytesLess(_, _)
BytesLess(x, y) ==
    IF y = <<>> THEN FALSE
    ELSE IF x = <<>> THEN TRUE
    ELSE IF Head(x) # Head(y) THEN Head(x) < Head(y)
    ELSE BytesLess(Tail(x), Tail(y))

\* a bound TEXT parameter compared with the INTEGER column value: the column's
\* affinity turns the decimal text into the integer it spells
RECURSIVE NumericAffinity(_)
NumericAffinity(text) ==
    IF text = <<>> THEN 0
    ELSE 10 * NumericAffinity(SubSeq(text, 1, Len(text) - 1)) + text[Len(text)]

\* st.value <operator> ?
Compare(a, operator, b) ==
    CASE operator = "="  -> a = b
      [] operator = ">"  -> a > b
      [] operator = "<"  -> a < b
      [] operator = ">=" -> a >= b
      [] operator = "<=" -> a <= b
      [] operator = "!=" -> a # b

\* FROM songs s JOIN song_tags st_i ON s.id = st_i.song_id
\*              JOIN tags t_i ON st_i.tag_id = t_i.id     (one pair per join)
\* a joined row is a song with, for every join pair, a (song_tags, tags) row pair
JoinedRows(S, T, ST, stmt) ==
    UNION {
        LET pairs == {p \in ST \X T : p[1].song_id = s.id /\ p[1].tag_id = p[2].id}
        IN  {[s |-> s, b |-> b] : b \in [1..Len(stmt.query) -> pairs]}
        : s \in S }

\* (mutant) every WHERE clause reads the first join pair: the aliases shared
BoundToFirst(r, stmt, alias) == r.b[1]

\* the row pair a joined row binds to the aliases st_i, t_i
Bound(r, stmt, alias) ==
    r.b[CHOOSE j \in 1..Len(stmt.query) : stmt.query[j] = alias]

\* WHERE (t_i.name = ? AND st_i.value op ?) AND ...: the k-th clause takes the
\* bound parameters 2k-1 and 2k
WhereHolds(r, stmt) ==
    \A k \in 1..Len(stmt.where_conditions) :
        LET w == stmt.where_conditions[k]
            pair == Bound(r, stmt, w.alias)
        IN  /\ pair[2].name = stmt.params_vec[2 * k - 1]
            /\ Compare(pair[1].value, w.operator,
                       NumericAffinity(stmt.params_vec[2 * k]))

\* SELECT DISTINCT s.id, s.path
SelectDistinct(R) == {[id |-> r.s.id, path |-> r.s.path] : r \in R}

\* (mutant) ORDER BY s.path DESC
RECURSIVE OrderByPathDesc(_)
OrderByPathDesc(R) ==
    IF R = {} THEN <<>>
    ELSE LET m == CHOOSE x \in R :
                      \A y \in R : ~BytesLess(Utf8(x.path), Utf8(y.path))
         IN  <<m>> \o OrderByPathDesc(R \ {m})

\* ORDER BY s.path
RECURSIVE OrderByPath(_)
OrderByPath(R) ==
    IF R = {} THEN <<>>
    ELSE LET m == CHOOSE x \in R :
                      \A y \in R : ~BytesLess(Utf8(y.path), Utf8(x.path))
         IN  <<m>> \o OrderByPath(R \ {m})

\* stmt.query_map(...) collected into the Vec<Song>
Execute(S, T, ST, stmt) ==
    OrderByPath(SelectDistinct({r \in JoinedRows(S, T, ST, stmt) : WhereHolds(r, stmt)}))

\* (mutant) the early return left out
never_empty(conditions) == FALSE

\* conditions.is_empty(): the early return before connect()
is_empty(conditions) == conditions = <<>>

query_songs(conditions) ==
    /\ UNCHANGED <<cli, procs>>
    /\ UNCHANGED <<available, foreign_keys, songs, tags, song_tags, play_events,
                   feedback>>
    /\ IF is_empty(conditions)
       THEN /\ last' = QueryCall(conditions, "Ok", FALSE, NoStmt, <<>>)
            /\ UNCHANGED tables
       ELSE IF ~available
       THEN /\ last' = QueryCall(conditions, "StorageUnavailable", FALSE, NoStmt, <<>>)
            /\ UNCHANGED tables
       ELSE /\ tables' = CreateTables(tables)
            /\ LET stmt == Loop(conditions, Len(conditions))
               IN  IF stmt.err
                   THEN last' = QueryCall(conditions, "InvalidOperator", FALSE,
                                          stmt, <<>>)
                   ELSE last' = QueryCall(conditions, "Ok", TRUE, stmt,
                                          Execute(songs, tags, song_tags, stmt))

-----------------------------------------------------------------------------
(* parse_tag_condition (cli.rs): strings are sequences of characters *)

\* (mutant) the one-character operators tried first
operators_short_first == <<">", "<", "=", ">=", "<=", "!=">>

\* let operators = [">=", "<=", "!=", ">", "<", "="]
operators == <<">=", "<=", "!=", ">", "<", "=">>

\* the characters of an operator
Chars(op) ==
    CASE op = ">=" -> <<">", "=">>
      [] op = "<=" -> <<"<", "=">>
      [] op = "!=" -> <<"!", "=">>
      [] op = ">"  -> <<">">>
      [] op = "<"  -> <<"<">>
      [] op = "="  -> <<"=">>

Digits == {"0", "1", "2", "3", "4", "5", "6", "7", "8", "9"}

DigitValue(c) ==
    CASE c = "0" -> 0 [] c = "1" -> 1 [] c = "2" -> 2 [] c = "3" -> 3
      [] c = "4" -> 4 [] c = "5" -> 5 [] c = "6" -> 6 [] c = "7" -> 7
      [] c = "8" -> 8 [] c = "9" -> 9

\* str::find: the byte offset of the first occurrence of pat in text, -1 for None
find(text, pat) ==
    LET hits == {i \in 0..(Len(text) - Len(pat)) :
                    SubSeq(text, i + 1, i + Len(pat)) = pat}
    IN  IF hits = {} THEN -1 ELSE CHOOSE i \in hits : \A j \in hits : i <= j

\* str::trim: the text without its leading and trailing white space
RECURSIVE trim(_)
trim(text) ==
    IF text = <<>> THEN text
    ELSE IF Head(text) = " " THEN trim(Tail(text))
    ELSE IF text[Len(text)] = " " THEN trim(SubSeq(text, 1, Len(text) - 1))
    ELSE text

\* the number a string of digits spells
RECURSIVE Decimal(_)
Decimal(ds) ==
    IF ds = <<>> THEN 0
    ELSE 10 * Decimal(SubSeq(ds, 1, Len(ds) - 1)) + DigitValue(ds[Len(ds)])

\* the largest u8
U8Max == 255

\* str::parse::<u8>: an optional '+', then one or more digits spelling a number
\* up to 255; -1 for Err (an empty string, a '-', any other character, overflow)
parse_u8(text) ==
    LET ds == IF text # <<>> /\ Head(text) = "+" THEN Tail(text) ELSE text
    IN  IF ds = <<>> \/ \E i \in 1..Len(ds) : ds[i] \notin Digits
        THEN -1
        ELSE IF Decimal(ds) > U8Max THEN -1 ELSE Decimal(ds)

ParseResult(condition, res, tag_name, value, operator) ==
    [condition |-> condition, res |-> res, tag_name |-> tag_name,
     value |-> value, operator |-> operator]

\* the loop of parse_tag_condition from the k-th operator on: the first operator
\* of the list that find() locates decides the result
RECURSIVE ParseFrom(_, _)
ParseFrom(condition, k) ==
    IF k > Len(operators)
    THEN ParseResult(condition, "NoOperatorFound", <<>>, 0, "")
    ELSE LET op == operators[k]
             pos == find(condition, Chars(op))
         IN  IF pos = -1
             THEN ParseFrom(condition, k + 1)
             ELSE LET tag_name == trim(SubSeq(condition, 1, pos))
                      value_str == trim(SubSeq(condition, pos + Len(Chars(op)) + 1,
                                               Len(condition)))
                      value == parse_u8(value_str)
                  IN  IF tag_name = <<>>
                      THEN ParseResult(condition, "EmptyTagName", <<>>, 0, "")
                      ELSE IF value = -1
                      THEN ParseResult(condition, "NonNumericValue", <<>>, 0, "")
                      ELSE IF value <= MaxValue
                      THEN ParseResult(condition, "Ok", tag_name, value, op)
                      ELSE ParseResult(condition, "ValueOutOfRange", <<>>, 0, "")

parse_tag_condition(condition) ==
    /\ cli' = ParseFrom(condition, 1)
    /\ UNCHANGED <<available, foreign_keys, tables, songs, tags, song_tags,
                   play_events, feedback, last, procs>>

-----------------------------------------------------------------------------
(* Stores the program starts from *)

\* a store file that does not exist yet: Connection::open creates it empty
FreshStore ==
    /\ tables = {}
    /\ songs = {}
    /\ tags = {}
    /\ song_tags = {}
    /\ play_events = {}
    /\ feedback = {}

SeedSongs == {[id |-> 1, path |-> "a"], [id |-> 2, path |-> "b"]}

SeedTags == {[id |-> 1, name |-> "x"], [id |-> 2, name |-> "y"]}

SeedPlayEvents == {[id |-> 1, song_id |-> 1], [id |-> 2, song_id |-> 2]}

SeedFeedback ==
    {[id |-> 1, play_event_id |-> 1, tag_id |-> 1],
     [id |-> 2, play_event_id |-> 2, tag_id |-> 2]}

\* a store left by earlier runs, with a play event per song and feedback on some
\* of them, recorded by the playback side of the schema; every reference points
\* at an existing row
SeededStore ==
    /\ tables = AllTables
    /\ songs = SeedSongs
    /\ tags = SeedTags
    /\ song_tags = {}
    /\ play_events = SeedPlayEvents
    /\ feedback \in SUBSET SeedFeedback

Init ==
    /\ available = TRUE
    /\ foreign_keys \in BOOLEAN
    /\ last = NoCall
    /\ cli = NoParse
    /\ procs = NoProcs
    /\ FreshStore \/ SeededStore

Next ==
    \/ \E p \in Paths : add_song(p)
    \/ \E n \in Names : add_tag(n)
    \/ \E p \in Paths, n \in Names, v \in Values : tag_song(p, n, v)
    \/ \E p \in Paths : remove_song(p)
    \/ \E n \in Names : remove_tag(n)

Spec == Init /\ [][Next]_vars

-----------------------------------------------------------------------------
(* One run of query_songs on a populated store *)

\* values the stored tags take: tag x (id 1) is 5 or 8, tag y (id 2) is 5
StoredValues(tag_id) == IF tag_id = 1 THEN {5, 8} ELSE {5}

\* values conditions name: one a stored value equals, one between the stored values
CondValues == {5, 7}

\* every valid condition, and one with an operator outside the allow-list
Conditions ==
    {Condition(n, v, o) : n \in Names, v \in CondValues, o \in valid_operators}
        \cup {Condition("x", 7, "~")}

CondLists == UNION {[1..k -> Conditions] : k \in 0..MaxConds}

\* song_tags rows of a store in which both seed songs and both seed tags exist:
\* every (song, tag) pair has no row or one row
TaggedStores ==
    {{[song_id |-> p[1], tag_id |-> p[2], value |-> f[p]] : p \in DOMAIN f}
        : f \in UNION {{g \in [D -> 0..MaxValue] :
                            \A p \in D : g[p] \in StoredValues(p[2])}
                        : D \in SUBSET ((1..2) \X (1..2))}}

QueryStore ==
    /\ tables = AllTables
    /\ songs = SeedSongs
    /\ tags = SeedTags
    /\ song_tags \in TaggedStores
    /\ play_events = {}
    /\ feedback = {}

\* (query_songs writes no row, so foreign-key enforcement plays no part in it)
InitQ ==
    /\ available = TRUE
    /\ foreign_keys = FALSE
    /\ last = NoCall
    /\ cli = NoParse
    /\ procs = NoProcs
    /\ FreshStore \/ QueryStore

\* the export command runs query_songs once
NextQ == last.op = "none" /\ \E c \in CondLists : query_songs(c)

SpecQ == InitQ /\ [][NextQ]_vars

\* the same run when the store file may be impossible to open
InitQU ==
    /\ available \in BOOLEAN
    /\ foreign_keys = FALSE
    /\ last = NoCall
    /\ cli = NoParse
    /\ procs = NoProcs
    /\ FreshStore \/ QueryStore

SpecQU == InitQU /\ [][NextQ]_vars

-----------------------------------------------------------------------------
(* One run of parse_tag_condition *)

\* longest string of arbitrary characters handed to parse_tag_condition
MaxLen == 4

Alphabet == {"x", " ", "=", ">", "<", "!", "1", "0", "-"}

\* every string of up to MaxLen characters of the alphabet
Arbitrary == UNION {[1..k -> Alphabet] : k \in 0..MaxLen}

\* tag names without operator characters and white space
TagNames == {<<"x">>, <<"y">>, <<"x", "y">>, <<"e", "n", "e", "r", "g", "y">>}

\* texts after the operator: the ten digits, numbers above 9, above 255 and
\* below 0, a signed digit, no text and text that is no number
ValueTexts ==
    {<<d>> : d \in Digits}
        \cup {<<"1", "0">>, <<"2", "5", "5">>, <<"2", "5", "6">>, <<"3", "0", "0">>,
              <<"-", "1">>, <<"+", "5">>, <<>>, <<"5", "x">>, <<" ", "7", " ">>}

\* name, operator, value text, with or without a blank after the name
Composed ==
    {n \o b \o Chars(operators[k]) \o v :
        n \in TagNames, b \in {<<>>, <<" ">>}, k \in 1..Len(operators),
        v \in ValueTexts}

ConditionStrings == Arbitrary \cup Composed

InitP ==
    /\ available = TRUE
    /\ foreign_keys \in BOOLEAN
    /\ last = NoCall
    /\ cli = NoParse
    /\ procs = NoProcs
    /\ FreshStore

\* one condition string of the command line is parsed
NextP == cli.res = "none" /\ \E c \in ConditionStrings : parse_tag_condition(c)

SpecP == InitP /\ [][NextP]_vars

-----------------------------------------------------------------------------
(* connect(), one statement of its batch at a time, in two processes *)

\* the CREATE TABLE IF NOT EXISTS statements of the batch, in their order
CreateOrder == <<"songs", "tags", "song_tags", "contexts", "play_events", "feedback">>

\* (mutant) a CREATE TABLE outside a transaction: committed as it runs
CreateTableAutocommit(T, pending, t) ==
    [tables |-> T \cup {t}, pending |-> pending]

\* a CREATE TABLE between BEGIN and COMMIT: the table exists for this connection
\* only, until the COMMIT
CreateTable(T, pending, t) ==
    [tables |-> T, pending |-> pending \cup {t}]

\* another connection holds the write lock of an open transaction
Locked(p) == \E q \in Procs \ {p} : procs[q].pending # {}

\* the connection is dropped on the error path: its open transaction is rolled back
Dropped(res) == [Idle EXCEPT !.res = res]

UnchangedByConnect ==
    UNCHANGED <<available, foreign_keys, songs, tags, song_tags, play_events,
                feedback, last, cli>>

\* Connection::open(db_path)?
connect_open(p) ==
    /\ procs[p].pc = "idle"
    /\ \E ok \in BOOLEAN :
           procs' = [procs EXCEPT ![p] =
                        IF ok THEN [Idle EXCEPT !.pc = "begin", !.op = "connect"]
                        ELSE Dropped("StorageUnavailable")]
    /\ UNCHANGED tables
    /\ UnchangedByConnect

\* BEGIN;
batch_begin(p) ==
    /\ procs[p].pc = "begin"
    /\ procs' = [procs EXCEPT ![p].pc = "create"]
    /\ UNCHANGED tables
    /\ UnchangedByConnect

\* the next CREATE TABLE IF NOT EXISTS of the batch: nothing to do for a table
\* that exists, SQLITE_BUSY when another connection is writing
batch_create(p) ==
    /\ procs[p].pc = "create"
    /\ procs[p].n < Len(CreateOrder)
    /\ LET t == CreateOrder[procs[p].n + 1]
       IN  IF t \in tables \cup procs[p].pending
           THEN /\ procs' = [procs EXCEPT ![p].n = @ + 1]
                /\ UNCHANGED tables
           ELSE IF Locked(p)
           THEN /\ procs' = [procs EXCEPT ![p] = Dropped("Busy")]
                /\ UNCHANGED tables
           ELSE LET after == CreateTable(tables, procs[p].pending, t)
                IN  /\ tables' = after.tables
                    /\ procs' = [procs EXCEPT ![p].n = @ + 1,
                                              ![p].pending = after.pending]
    /\ UnchangedByConnect

\* a statement of the batch fails (disk full, I/O error): execute_batch(..)?
\* returns the error and the connection is dropped
batch_fail(p) ==
    /\ procs[p].pc \in {"begin", "create"}
    /\ procs' = [procs EXCEPT ![p] = Dropped("Failure")]
    /\ UNCHANGED tables
    /\ UnchangedByConnect

\* COMMIT; Ok(conn)
batch_commit(p) ==
    /\ procs[p].pc = "create"
    /\ procs[p].n = Len(CreateOrder)
    /\ tables' = tables \cup procs[p].pending
    /\ procs' = [procs EXCEPT ![p] = Dropped("Ok")]
    /\ UnchangedByConnect

InitC ==
    /\ available = TRUE
    /\ foreign_keys \in BOOLEAN
    /\ last = NoCall
    /\ cli = NoParse
    /\ procs = NoProcs
    /\ FreshStore \/ SeededStore

NextC ==
    \E p \in Procs :
        \/ connect_open(p)
        \/ batch_begin(p)
        \/ batch_create(p)
        \/ batch_fail(p)
        \/ batch_commit(p)

SpecC == InitC /\ [][NextC]_vars

-----------------------------------------------------------------------------
(* tag_song, remove_song and remove_tag, one SQL statement at a time, in two
   processes: each process is one run of the program and makes one call; every
   statement commits on its own *)

\* the process returns res
Return(p, res) == [procs EXCEPT ![p].pc = "done", ![p].res = res]

\* the parent rows a DELETE of the call removed, kept with the call
Gone(table, ids) == {[table |-> table, id |-> i] : i \in ids}

\* the process has issued a DELETE on the table, removed the rows and goes on
Deleted(p, table, ids, pc) ==
    [procs EXCEPT ![p].pc = pc,
                  ![p].res = IF pc = "done" THEN "Ok" ELSE @,
                  ![p].issued = Append(@, table),
                  ![p].gone = @ \cup Gone(table, ids)]

\* the process enters tag_song, remove_song or remove_tag: connect() finds the
\* schema in place
call(p, op, path, name, value) ==
    /\ procs[p].pc = "idle"
    /\ procs' = [procs EXCEPT ![p] =
                    [Idle EXCEPT !.pc = IF op = "remove_tag" THEN "select_tag"
                                        ELSE "select_song",
                                 !.op = op, !.path = path, !.name = name,
                                 !.value = value]]
    /\ UNCHANGED <<available, foreign_keys, tables, songs, tags, song_tags,
                   play_events, feedback, last, cli>>

\* SELECT id FROM songs WHERE path = ?1: tag_song returns the error of
\* query_row when no row comes back, remove_song returns Ok
select_song_id(p) ==
    /\ procs[p].pc = "select_song"
    /\ LET sids == SelectSongId(songs, procs[p].path)
       IN  IF sids = {}
           THEN procs' = Return(p, IF procs[p].op = "tag_song" THEN "NotFound"
                                   ELSE "Ok")
           ELSE procs' = [procs EXCEPT
                             ![p].song_id = CHOOSE i \in sids : TRUE,
                             ![p].pc = IF procs[p].op = "tag_song"
                                       THEN "select_tag" ELSE "delete_song_tags"]
    /\ UNCHANGED <<available, foreign_keys, tables, songs, tags, song_tags,
                   play_events, feedback, last, cli>>

\* SELECT id FROM tags WHERE name = ?1
select_tag_id(p) ==
    /\ procs[p].pc = "select_tag"
    /\ LET tids == SelectTagId(tags, procs[p].name)
       IN  IF tids = {}
           THEN procs' = Return(p, IF procs[p].op = "tag_song" THEN "NotFound"
                                   ELSE "Ok")
           ELSE procs' = [procs EXCEPT
                             ![p].tag_id = CHOOSE i \in tids : TRUE,
                             ![p].pc = IF procs[p].op = "tag_song"
                                       THEN "insert" ELSE "delete_song_tags"]
    /\ UNCHANGED <<available, foreign_keys, tables, songs, tags, song_tags,
                   play_events, feedback, last, cli>>

\* INSERT INTO song_tags ... ON CONFLICT(song_id, tag_id) DO UPDATE, with the
\* ids the two SELECTs returned
insert_song_tag(p) ==
    /\ procs[p].pc = "insert"
    /\ IF /\ CheckValue(procs[p].value)
          /\ SongTagParentsOk(songs, tags, procs[p].song_id, procs[p].tag_id)
       THEN /\ song_tags' = UpsertSongTag(song_tags, procs[p].song_id,
                                          procs[p].tag_id, procs[p].value)
            /\ procs' = Return(p, "Ok")
       ELSE /\ procs' = Return(p, "ConstraintViolation")
            /\ UNCHANGED song_tags
    /\ UNCHANGED <<available, foreign_keys, tables, songs, tags, play_events,
                   feedback, last, cli>>

\* DELETE FROM song_tags WHERE song_id = ?1 (remove_song), WHERE tag_id = ?1
\* (remove_tag)
delete_song_tags(p) ==
    /\ procs[p].pc = "delete_song_tags"
    /\ IF procs[p].op = "remove_song"
       THEN /\ song_tags' = DeleteSongTagsOfSong(song_tags, procs[p].song_id)
            /\ procs' = Deleted(p, "song_tags", {}, "delete_play_events")
       ELSE /\ song_tags' = DeleteSongTagsOfTag(song_tags, procs[p].tag_id)
            /\ procs' = Deleted(p, "song_tags", {}, "delete_feedback")
    /\ UNCHANGED <<available, foreign_keys, tables, songs, tags, play_events,
                   feedback, last, cli>>

\* DELETE FROM play_events WHERE song_id = ?1
delete_play_events(p) ==
    /\ procs[p].pc = "delete_play_events"
    /\ IF PlayEventsDeletable(play_events, feedback, procs[p].song_id)
       THEN /\ play_events' = DeletePlayEventsOfSong(play_events, procs[p].song_id)
            /\ procs' = Deleted(p, "play_events",
                                {e.id : e \in {q \in play_events :
                                                  q.song_id = procs[p].song_id}},
                                "delete_feedback")
       ELSE /\ procs' = [Return(p, "ConstraintViolation") EXCEPT
                            ![p].issued = Append(@, "play_events")]
            /\ UNCHANGED play_events
    /\ UNCHANGED <<available, foreign_keys, tables, songs, tags, song_tags,
                   feedback, last, cli>>

\* DELETE FROM feedback WHERE play_event_id IN (SELECT id FROM play_events
\* WHERE song_id = ?1) (remove_song), WHERE tag_id = ?1 (remove_tag)
delete_feedback(p) ==
    /\ procs[p].pc = "delete_feedback"
    /\ IF procs[p].op = "remove_song"
       THEN /\ feedback' = DeleteFeedbackOfSong(feedback, play_events,
                                                procs[p].song_id)
            /\ procs' = Deleted(p, "feedback", {}, "delete_song")
       ELSE /\ feedback' = DeleteFeedbackOfTag(feedback, procs[p].tag_id)
            /\ procs' = Deleted(p, "feedback", {}, "delete_tag")
    /\ UNCHANGED <<available, foreign_keys, tables, songs, tags, song_tags,
                   play_events, last, cli>>

\* DELETE FROM songs WHERE id = ?1
delete_song(p) ==
    /\ procs[p].pc = "delete_song"
    /\ IF SongDeletable(song_tags, play_events, procs[p].song_id)
       THEN /\ songs' = DeleteSong(songs, procs[p].song_id)
            /\ procs' = Deleted(p, "songs",
                                {s.id : s \in {r \in songs :
                                                  r.id = procs[p].song_id}},
                                "done")
       ELSE /\ procs' = [Return(p, "ConstraintViolation") EXCEPT
                            ![p].issued = Append(@, "songs")]
            /\ UNCHANGED songs
    /\ UNCHANGED <<available, foreign_keys, tables, tags, song_tags, play_events,
                   feedback, last, cli>>

\* DELETE FROM tags WHERE id = ?1
delete_tag(p) ==
    /\ procs[p].pc = "delete_tag"
    /\ IF TagDeletable(song_tags, feedback, procs[p].tag_id)
       THEN /\ tags' = DeleteTag(tags, procs[p].tag_id)
            /\ procs' = Deleted(p, "tags",
                                {t.id : t \in {r \in tags :
                                                  r.id = procs[p].tag_id}},
                                "done")
       ELSE /\ procs' = [Return(p, "ConstraintViolation") EXCEPT
                            ![p].issued = Append(@, "tags")]
            /\ UNCHANGED tags
    /\ UNCHANGED <<available, foreign_keys, tables, songs, song_tags, play_events,
                   feedback, last, cli>>

\* the values a concurrent tag_song writes
TagValues == {3, 10}

\* the song_tags rows of the store the processes start on
SeedSongTags == {{}, {[song_id |-> 1, tag_id |-> 1, value |-> 5]}}

InitS ==
    /\ available = TRUE
    /\ foreign_keys \in BOOLEAN
    /\ last = NoCall
    /\ cli = NoParse
    /\ procs = NoProcs
    /\ tables = AllTables
    /\ songs = SeedSongs
    /\ tags = SeedTags
    /\ song_tags \in SeedSongTags
    /\ play_events = SeedPlayEvents
    /\ feedback \in SUBSET SeedFeedback

NextS ==
    \E p \in Procs :
        \/ \E path \in Paths, name \in Names, value \in TagValues :
               call(p, "tag_song", path, name, value)
        \/ \E path \in Paths : call(p, "remove_song", path, "", 0)
        \/ \E name \in Names : call(p, "remove_tag", "", name, 0)
        \/ select_song_id(p)
        \/ select_tag_id(p)
        \/ insert_song_tag(p)
        \/ delete_song_tags(p)
        \/ delete_play_events(p)
        \/ delete_feedback(p)
        \/ delete_song(p)
        \/ delete_tag(p)

SpecS == InitS /\ [][NextS]_vars

-----------------------------------------------------------------------------
(* Properties *)

\* the rows a path and a tag name select, as a caller sees them
SongsAt(S, path) == {s \in S : s.path = path}

TagsAt(T, name) == {t \in T : t.name = name}

\* the values stored for the pair (song at path, tag named name)
ValuesOf(S, T, ST, path, name) ==
    {r.value : r \in {q \in ST : /\ q.song_id \in {s.id : s \in SongsAt(S, path)}
                                 /\ q.tag_id \in {t.id : t \in TagsAt(T, name)}}}

\* the UNIQUE keys of songs and tags, and what a step of add_song or add_tag does
C1_UniqueKeys ==
    /\ \A p \in Paths : Cardinality(SongsAt(songs, p)) <= 1
    /\ \A n \in Names : Cardinality(TagsAt(tags, n)) <= 1

C1_Step ==
    /\ last'.op = "add_song" =>
        /\ last'.res = "Ok"
        /\ Cardinality(SongsAt(songs', last'.path)) = 1
        /\ SongsAt(songs, last'.path) # {} => store' = store
    /\ last'.op = "add_tag" =>
        /\ last'.res = "Ok"
        /\ Cardinality(TagsAt(tags', last'.name)) = 1
        /\ TagsAt(tags, last'.name) # {} => store' = store

\* C1: add_song and add_tag are idempotent creates.  There is never more than
\* one songs row per path nor more than one tags row per name; every add_song(p)
\* succeeds and leaves exactly one row with path p; an add_song(p) that finds a
\* row with path p (the second of two calls) leaves every table as it was; and
\* the same for add_tag(n) and the tags rows.
C1_IdempotentCreate == []C1_UniqueKeys /\ [][C1_Step]_vars

\* add_song("a") met the row an earlier add_song("a") had inserted (the seeded
\* row of "a" has id 1, this one was inserted after "b")
C1_Witness ==
    /\ last.op = "add_song"
    /\ last.path = "a"
    /\ last.res = "Ok"
    /\ last.changes = 0
    /\ SongsAt(songs, "a") = {[id |-> 2, path |-> "a"]}

\* what a successful remove_song leaves of the song's dependents
C2_Step ==
    (last'.op = "remove_song" /\ last'.res = "Ok") =>
        \A s \in SongsAt(songs, last'.path) :
            /\ ~\E r \in song_tags' : r.song_id = s.id
            /\ ~\E e \in play_events' : e.song_id = s.id
            /\ ~\E f \in feedback' :
                    \E e \in play_events : e.song_id = s.id /\ e.id = f.play_event_id

\* C2: cascade completeness.  When remove_song(p) returns Ok for a song of id k,
\* no song_tags row and no play_events row with song_id = k is left, and no
\* feedback row whose play_event_id is one of the play events k had.
C2_CascadeComplete == [][C2_Step]_vars

\* what a failed remove_song or remove_tag leaves
C3_Step ==
    (last'.op \in {"remove_song", "remove_tag"} /\ last'.res # "Ok") =>
        rows' = rows

\* C3: the deletes of remove_song and of remove_tag are all applied or none is:
\* a call that fails at one of its statements leaves every row as it was.
C3_AtomicDelete == [][C3_Step]_vars

\* what a tag_song on a missing song or tag does
C4_Step ==
    (/\ last'.op = "tag_song"
     /\ SongsAt(songs, last'.path) = {} \/ TagsAt(tags, last'.name) = {}) =>
        /\ last'.res = "NotFound"
        /\ rows' = rows

\* C4: tag_song on a missing song or a missing tag fails with NotFound and
\* changes no row of any table: it creates neither the song, the tag nor a
\* song_tags row.
C4_TagSongNotFound == [][C4_Step]_vars

\* tag_song found the song "a" and no tag "x", in a store that holds rows
C4_Witness ==
    /\ last.op = "tag_song"
    /\ last.res = "NotFound"
    /\ last.path = "a"
    /\ last.name = "x"
    /\ SongsAt(songs, "a") # {}
    /\ TagsAt(tags, "x") = {}
    /\ song_tags # {}

\* the key of song_tags, and what a step does to the value of every pair
C5_OneRowPerPair ==
    \A r1 \in song_tags, r2 \in song_tags :
        (r1.song_id = r2.song_id /\ r1.tag_id = r2.tag_id) => r1 = r2

\* (a step that changes none of the three tables and is no successful tag_song
\* leaves every pair's value as it was: only the other steps are looked at)
C5_Step ==
    (\/ <<songs, tags, song_tags>>' # <<songs, tags, song_tags>>
     \/ last'.op = "tag_song" /\ last'.res = "Ok") =>
        \A p \in Paths, n \in Names :
            LET before == ValuesOf(songs, tags, song_tags, p, n)
                after == ValuesOf(songs', tags', song_tags', p, n)
            IN  IF /\ last'.op = "tag_song"
                   /\ last'.res = "Ok"
                   /\ last'.path = p
                   /\ last'.name = n
                THEN after = {last'.value}
                ELSE after \subseteq before

\* C5: upsert.  There is never more than one song_tags row per (song_id,
\* tag_id).  A successful tag_song(p, t, v) leaves exactly the value v for the
\* pair (p, t); every other call leaves the pair's value as it was or leaves
\* the pair without a row, so a pair whose song or tag is missing or was just
\* created has no value: the value of a pair is the one of the latest
\* successful tag_song on it since its song and tag were created.
C5_Upsert == []C5_OneRowPerPair /\ [][C5_Step]_vars

\* tag_song("a", "x", 9) overwrote the 0 an earlier tag_song had stored
C5_Witness ==
    /\ last.op = "tag_song"
    /\ last.res = "Ok"
    /\ last.path = "a"
    /\ last.name = "x"
    /\ last.value = 9
    /\ last.old = 0
    /\ ValuesOf(songs, tags, song_tags, "a", "x") = {9}
    /\ Cardinality({r \in song_tags : r.song_id \in {s.id : s \in SongsAt(songs, "a")}}) = 1

\* the range of the stored values, and what a tag_song on an existing pair does
C6_ValuesInRange == \A r \in song_tags : r.value \in 0..9

C6_Step ==
    (/\ last'.op = "tag_song"
     /\ SongsAt(songs, last'.path) # {}
     /\ TagsAt(tags, last'.name) # {}) =>
        IF last'.value \in 0..9
        THEN /\ last'.res = "Ok"
             /\ ValuesOf(songs', tags', song_tags', last'.path, last'.name)
                    = {last'.value}
        ELSE /\ last'.res = "ConstraintViolation"
             /\ rows' = rows

\* C6: value bound.  Every stored value is in 0..9.  On an existing song and
\* tag, tag_song succeeds for every value in 0..9 (0 and 9 among them) and
\* fails with a constraint violation for every value above 9 (10 and 255 among
\* them), and a failed call changes no row: a value already stored is kept.
C6_ValueBound == []C6_ValuesInRange /\ [][C6_Step]_vars

\* tag_song("a", "x", 10) failed on a pair that holds 9, and 9 is still there
C6_Witness ==
    /\ last.op = "tag_song"
    /\ last.path = "a"
    /\ last.name = "x"
    /\ last.value = 10
    /\ last.res = "ConstraintViolation"
    /\ last.old = 9
    /\ ValuesOf(songs, tags, song_tags, "a", "x") = {9}

\* the six comparison operators of the condition grammar
SixOperators == {"=", ">", "<", ">=", "<=", "!="}

\* value op v, for the six operators
C7_Satisfies(value, op, v) ==
    \/ op = "=" /\ value = v
    \/ op = ">" /\ value > v
    \/ op = "<" /\ value < v
    \/ op = ">=" /\ value >= v
    \/ op = "<=" /\ value <= v
    \/ op = "!=" /\ value # v

\* the song has a song_tags row for the condition's tag whose value satisfies it
C7_Matches(s, c) ==
    \E r \in song_tags, t \in tags :
        /\ r.song_id = s.id
        /\ r.tag_id = t.id
        /\ t.name = c.tag_name
        /\ C7_Satisfies(r.value, c.operator, c.value)

\* C7: query conjunction.  For a non-empty condition list with operators among
\* the six, query_songs returns Ok with exactly the songs that, for every
\* condition of the list, have a row for the condition's tag whose value
\* satisfies the comparison (query_songs changes no row, so the rows are those
\* the query ran on).
C7_QueryConjunction ==
    (/\ last.op = "query_songs"
     /\ last.conditions # <<>>
     /\ \A k \in 1..Len(last.conditions) :
            last.conditions[k].operator \in SixOperators) =>
        /\ last.res = "Ok"
        /\ {last.songs[i] : i \in 1..Len(last.songs)} =
                {[id |-> s.id, path |-> s.path] :
                    s \in {x \in songs :
                            \A k \in 1..Len(last.conditions) :
                                C7_Matches(x, last.conditions[k])}}

\* the range query [x>=5, x<=7] returned "a", whose x is 5, and not "b", whose
\* x is 8
C7_Witness ==
    /\ last.op = "query_songs"
    /\ last.conditions = <<Condition("x", 5, ">="), Condition("x", 7, "<=")>>
    /\ last.songs = <<[id |-> 1, path |-> "a"]>>
    /\ [song_id |-> 1, tag_id |-> 1, value |-> 5] \in song_tags
    /\ [song_id |-> 2, tag_id |-> 1, value |-> 8] \in song_tags

\* C8: the sequence query_songs returns is in ascending order of path and holds
\* no song twice, whatever the conditions ("a" sorts before "b").
C8_SortedDistinct ==
    last.op = "query_songs" =>
        \A i \in 1..Len(last.songs), j \in 1..Len(last.songs) :
            i < j =>
                /\ last.songs[i].path = "a" /\ last.songs[j].path = "b"
                /\ last.songs[i].id # last.songs[j].id

\* a list that repeats one condition returned both songs, each once
C8_Witness ==
    /\ last.op = "query_songs"
    /\ last.conditions = <<Condition("x", 5, ">="), Condition("x", 5, ">=")>>
    /\ Len(last.songs) = 2

\* what a query_songs on the empty list does
C9_Step ==
    (last'.op = "query_songs" /\ last'.conditions = <<>>) =>
        /\ last'.res = "Ok"
        /\ last'.songs = <<>>
        /\ ~last'.prepared
        /\ store' = store

\* C9: query_songs on the empty list returns Ok with an empty sequence and
\* leaves the store as it is, tables included: it creates no schema and prepares
\* no statement, also when the store cannot be opened.
C9_EmptyList == [][C9_Step]_vars

\* the empty query returned Ok on a store that cannot be opened and has no schema
C9_Witness ==
    /\ last.op = "query_songs"
    /\ last.conditions = <<>>
    /\ last.res = "Ok"
    /\ ~available
    /\ tables = {}

\* what a query_songs on a list with an operator outside the six does
C10_Step ==
    (/\ last'.op = "query_songs"
     /\ \E k \in 1..Len(last'.conditions) :
            last'.conditions[k].operator \notin SixOperators) =>
        /\ last'.res = "InvalidOperator"
        /\ ~last'.prepared
        /\ last'.songs = <<>>
        /\ rows' = rows
        /\ \A k \in 1..Len(last'.stmt.where_conditions) :
                last'.stmt.where_conditions[k].operator \in SixOperators

\* C10: invalid operator.  A list with an operator outside the six, at any
\* position, makes query_songs return InvalidOperator with no statement
\* prepared, no song returned and every row unchanged, and no operator outside
\* the six was pushed onto the WHERE clauses built up to the return.
C10_InvalidOperator == [][C10_Step]_vars

\* the second condition's operator was refused after the first was pushed, on a
\* store whose songs match the first
C10_Witness ==
    /\ last.op = "query_songs"
    /\ last.res = "InvalidOperator"
    /\ last.conditions = <<Condition("x", 5, ">="), Condition("x", 7, "~")>>
    /\ Len(last.stmt.where_conditions) = 1
    /\ ~last.prepared
    /\ [song_id |-> 1, tag_id |-> 1, value |-> 5] \in song_tags


\* the operators in the order of their priority
C11_Priority == <<">=", "<=", "!=", ">", "<", "=">>

\* the places of the priority list whose operator occurs somewhere in the text
C11_Found(text) ==
    {k \in 1..Len(C11_Priority) :
        \E i \in 1..Len(text) :
            /\ i + Len(Chars(C11_Priority[k])) - 1 <= Len(text)
            /\ SubSeq(text, i, i + Len(Chars(C11_Priority[k])) - 1)
                   = Chars(C11_Priority[k])}

\* C11: parse_tag_condition uses the first operator of [>=, <=, !=, >, <, =]
\* that occurs anywhere in the string: a successful parse carries that operator,
\* and the parse finds no operator exactly when none occurs.  For every tag name
\* without = > < ! and without surrounding white space, every operator op of
\* the six and every digit v, parsing name ++ op ++ v gives exactly
\* (name, v, op); so "x>=5" gives (x, 5, >=).
C11_OperatorPriority ==
    cli.res # "none" =>
        LET found == C11_Found(cli.condition)
        IN  /\ (cli.res = "NoOperatorFound") <=> (found = {})
            /\ cli.res = "Ok" =>
                   /\ found # {}
                   /\ \E k \in found :
                          /\ \A j \in found : k <= j
                          /\ cli.operator = C11_Priority[k]
            /\ \A n \in TagNames, k \in 1..Len(C11_Priority), d \in Digits :
                   cli.condition = n \o Chars(C11_Priority[k]) \o <<d>> =>
                       /\ cli.res = "Ok"
                       /\ cli.tag_name = n
                       /\ cli.value = DigitValue(d)
                       /\ cli.operator = C11_Priority[k]

\* "x>=5" was parsed into (x, 5, >=)
C11_Witness ==
    /\ cli.condition = <<"x", ">", "=", "5">>
    /\ cli.res = "Ok"
    /\ cli.tag_name = <<"x">>
    /\ cli.value = 5
    /\ cli.operator = ">="

\* the text is an integer: an optional sign, then one or more digits
C12_IsInteger(text) ==
    LET ds == IF text # <<>> /\ Head(text) \in {"+", "-"} THEN Tail(text) ELSE text
    IN  ds # <<>> /\ \A i \in 1..Len(ds) : ds[i] \in Digits

\* the integer the text spells
C12_Integer(text) ==
    IF Head(text) = "-" THEN 0 - Decimal(Tail(text))
    ELSE IF Head(text) = "+" THEN Decimal(Tail(text))
    ELSE Decimal(text)

\* C12: for every input string parse_tag_condition returns either a condition
\* with a non-empty trimmed tag name, a value in [0,9] and an operator of the
\* list, or exactly one of four errors: NoOperatorFound when no operator occurs,
\* EmptyTagName when the text before the matched operator is empty after
\* trimming, ValueOutOfRange when the text after it is an integer outside
\* [0,9] (10, 300, -1), NonNumericValue when that text is not an integer.
C12_TypedFailures ==
    cli.res # "none" =>
        LET found == C11_Found(cli.condition)
        IN  IF found = {} THEN cli.res = "NoOperatorFound"
            ELSE LET k == CHOOSE k \in found : \A j \in found : k <= j
                     op == Chars(C11_Priority[k])
                     pos == CHOOSE i \in 1..Len(cli.condition) :
                                /\ i + Len(op) - 1 <= Len(cli.condition)
                                /\ SubSeq(cli.condition, i, i + Len(op) - 1) = op
                                /\ \A j \in 1..(i - 1) :
                                       SubSeq(cli.condition, j, j + Len(op) - 1) # op
                     before == trim(SubSeq(cli.condition, 1, pos - 1))
                     after == trim(SubSeq(cli.condition, pos + Len(op),
                                          Len(cli.condition)))
                 IN  IF before = <<>> THEN cli.res = "EmptyTagName"
                     ELSE IF ~C12_IsInteger(after) THEN cli.res = "NonNumericValue"
                     ELSE IF C12_Integer(after) \notin MinValue..MaxValue
                     THEN cli.res = "ValueOutOfRange"
                     ELSE /\ cli.res = "Ok"
                          /\ cli.tag_name = before
                          /\ cli.value = C12_Integer(after)
                          /\ cli.operator = C11_Priority[k]


\* the five operations that change the store
C13_Operations == {"add_song", "add_tag", "tag_song", "remove_song", "remove_tag"}

\* a call that repeats the call before it, and a remove of what is not there
C13_Step ==
    /\ (/\ last.op \in C13_Operations
        /\ last'.op = last.op
        /\ last'.path = last.path
        /\ last'.name = last.name
        /\ last'.value = last.value) => store' = store
    /\ (last'.op = "remove_song" /\ SongsAt(songs, last'.path) = {}) =>
           last'.res = "Ok" /\ rows' = rows
    /\ (last'.op = "remove_tag" /\ TagsAt(tags, last'.name) = {}) =>
           last'.res = "Ok" /\ rows' = rows

\* C13: each of add_song, add_tag, tag_song, remove_song and remove_tag, run a
\* second time right after itself with the same arguments, leaves the store as
\* the first run left it; remove_song of a path no song has and remove_tag of
\* a name no tag has succeed and leave every table unchanged.
C13_Idempotent == [][C13_Step]_vars

\* remove_song found no song of its path in a store that holds rows
C13_Witness ==
    /\ last.op = "remove_song"
    /\ last.res = "Ok"
    /\ last.changes = 0
    /\ SongsAt(songs, last.path) = {}
    /\ songs # {}
    /\ song_tags # {}


\* C14: every song_tags row references an existing song and an existing tag,
\* every play_events row an existing song, every feedback row an existing play
\* event and an existing tag: true of the store the calls start from, this
\* stays true after every sequence of add_song, add_tag, tag_song, remove_song
\* and remove_tag calls, so no call leaves an orphaned reference (after
\* remove_tag no song_tags and no feedback row carries the removed tag's id).
C14_Referential ==
    /\ \A st \in song_tags :
           /\ \E s \in songs : s.id = st.song_id
           /\ \E t \in tags : t.id = st.tag_id
    /\ \A pe \in play_events : \E s \in songs : s.id = pe.song_id
    /\ \A fb \in feedback :
           /\ \E pe \in play_events : pe.id = fb.play_event_id
           /\ \E t \in tags : t.id = fb.tag_id


\* what a step of a connect() call does to the committed schema and to the rows
C15_Step ==
    /\ tables' # tables => tables' = AllTables
    /\ rows' = rows

\* C15: the committed schema, which is what an observer sees, holds either
\* exactly the tables it held before or all six tables, whatever step of
\* whichever connect() call ran, whether that call goes on to succeed or to
\* fail, and with two processes connecting at once and again and again; no
\* step of connect() changes a stored row.
C15_AllOrNothing ==
    /\ [](tables = {} \/ tables = AllTables)
    /\ [][C15_Step]_vars

\* a connect() failed after it had created tables in its transaction, and the
\* other process is in the middle of its own batch
C15_Witness ==
    \E p \in Procs, q \in Procs :
        /\ procs[p].res = "Failure"
        /\ procs[q].pc = "create"
        /\ procs[q].n = 3
        /\ procs[q].pending # {}
        /\ tables = {}


\* the order of the deletes: rows that reference before the rows they reference
C16_Order == <<"feedback", "play_events", "song_tags", "songs">>

\* no row references a play event or a song the call of p has deleted
C16_NoDangling(p) ==
    \A g \in procs[p].gone :
        /\ g.table = "play_events" =>
               ~\E f \in feedback : f.play_event_id = g.id
        /\ g.table = "songs" =>
               /\ ~\E st \in song_tags : st.song_id = g.id
               /\ ~\E pe \in play_events : pe.song_id = g.id

\* C16: a remove_song that found its song issues its deletes in the order
\* feedback of the song's play events, the song's play_events, the song's
\* song_tags, the songs row, and at no step of the call does a row exist that
\* references a row the call has already deleted.
C16_DeletionOrder ==
    \A p \in Procs :
        procs[p].op = "remove_song" =>
            /\ Len(procs[p].issued) <= Len(C16_Order)
            /\ procs[p].issued = SubSeq(C16_Order, 1, Len(procs[p].issued))
            /\ C16_NoDangling(p)

\* C18: one process runs tag_song, the other remove_song or remove_tag, their
\* SQL statements interleaved in any way; once both calls have returned every
\* song_tags row references a song and a tag that exist.
C18_NoOrphanSongTag ==
    (/\ \A p \in Procs : procs[p].pc = "done"
     /\ \E p \in Procs : procs[p].op = "tag_song"
     /\ \E p \in Procs : procs[p].op \in {"remove_song", "remove_tag"}) =>
        \A st \in song_tags :
            /\ \E s \in songs : s.id = st.song_id
            /\ \E t \in tags : t.id = st.tag_id


\* the same list with every tag name and every value replaced by another one
C17_Swapped(conditions) ==
    [k \in 1..Len(conditions) |->
        [tag_name |-> IF conditions[k].tag_name = "x" THEN "y" ELSE "x",
         value |-> IF conditions[k].value = 5 THEN 7 ELSE 5,
         operator |-> conditions[k].operator]]

\* how many times a piece occurs in the text
C17_Count(text, piece) == Cardinality({k \in 1..Len(text) : text[k] = piece})

\* C17: the query text query_songs builds depends only on the number of
\* conditions and on their operators: for N conditions it has the N join pairs
\* of the aliases st0/t0 .. st(N-1)/t(N-1), one per condition even when two
\* conditions name the same tag, and the N WHERE clauses in the order of the
\* conditions, each with its own alias and its condition's operator; the list
\* with other tag names and values gives the same text; the bound parameters
\* are name_0, value_0, .., name_(N-1), value_(N-1), 2N of them.
C17_Parameterized ==
    (last.op = "query_songs" /\ last.prepared) =>
        LET N == Len(last.conditions)
            stmt == last.stmt
        IN  /\ stmt.query = [i \in 1..N |-> i - 1]
            /\ stmt.where_conditions =
                   [i \in 1..N |-> [alias |-> i - 1,
                                    operator |-> last.conditions[i].operator]]
            /\ Len(stmt.params_vec) = 2 * N
            /\ \A i \in 1..N :
                   /\ stmt.params_vec[2 * i - 1] = last.conditions[i].tag_name
                   /\ stmt.params_vec[2 * i] = <<last.conditions[i].value>>
            /\ C17_Count(QueryText(stmt), " JOIN song_tags st") = N
            /\ C17_Count(QueryText(stmt), "(t") = N
            /\ QueryText(stmt) =
                   QueryText(Loop(C17_Swapped(last.conditions), N))

\* two conditions on the same tag went into one statement
C17_Witness ==
    /\ last.op = "query_songs"
    /\ last.prepared
    /\ last.conditions = <<Condition("x", 5, ">="), Condition("x", 7, "<")>>
    /\ last.stmt.query = <<0, 1>>
    /\ last.stmt.params_vec = <<"x", <<5>>, "x", <<7>>>>
    /\ song_tags # {}


\* the rows of a table that the test keeps are the same before and after
C19_Same(before, after, Keep(_)) ==
    {r \in before : Keep(r)} = {r \in after : Keep(r)}

\* what remove_song(p) leaves alone
C19_RemoveSong ==
    last'.op = "remove_song" =>
        LET ids == {s.id : s \in SongsAt(songs, last'.path)}
            pes == {e.id : e \in {q \in play_events : q.song_id \in ids}}
            OtherSong(r) == r.id \notin ids
            OfOtherSong(r) == r.song_id \notin ids
            OnOtherSong(f) == f.play_event_id \notin pes
        IN  /\ tags' = tags
            /\ C19_Same(songs, songs', OtherSong)
            /\ C19_Same(song_tags, song_tags', OfOtherSong)
            /\ C19_Same(play_events, play_events', OfOtherSong)
            /\ C19_Same(feedback, feedback', OnOtherSong)

\* what remove_tag(n) leaves alone
C19_RemoveTag ==
    last'.op = "remove_tag" =>
        LET ids == {t.id : t \in TagsAt(tags, last'.name)}
            OtherTag(r) == r.id \notin ids
            OfOtherTag(r) == r.tag_id \notin ids
        IN  /\ songs' = songs
            /\ play_events' = play_events
            /\ C19_Same(tags, tags', OtherTag)
            /\ C19_Same(song_tags, song_tags', OfOtherTag)
            /\ C19_Same(feedback, feedback', OfOtherTag)

\* what add_song, add_tag and tag_song leave alone
C19_Add ==
    /\ last'.op \in {"add_song", "add_tag"} => song_tags' = song_tags
    /\ last'.op = "tag_song" =>
           LET sids == {s.id : s \in SongsAt(songs, last'.path)}
               tids == {t.id : t \in TagsAt(tags, last'.name)}
               OtherPair(r) == ~(r.song_id \in sids /\ r.tag_id \in tids)
           IN  /\ songs' = songs
               /\ tags' = tags
               /\ play_events' = play_events
               /\ feedback' = feedback
               /\ C19_Same(song_tags, song_tags', OtherPair)

\* C19: remove_song(p) changes nothing but the songs row of p and the
\* song_tags, play_events and feedback rows that depend on it: every other
\* song, every tag and every row of other songs stay as they are.
\* remove_tag(n) leaves every song, every play event, every other tag and the
\* song_tags and feedback rows of other tags as they are.  add_song and
\* add_tag change no song_tags row; tag_song changes no row other than the
\* song_tags row of its (song, tag) pair.
C19_Frame == [][C19_RemoveSong /\ C19_RemoveTag /\ C19_Add]_vars

\* remove_tag deleted a tag and its song_tags row, and rows of the other tag and
\* of both songs are still there
C19_Witness ==
    /\ last.op = "remove_tag"
    /\ last.res = "Ok"
    /\ last.changes = 1
    /\ TagsAt(tags, last.name) = {}
    /\ tags # {}
    /\ song_tags # {}
    /\ feedback # {}

====
